---- MODULE Spec2Model ----
(***************************************************************************)
(* Model of batched-iteration-mt-leaves/src/lib.rs: one call of            *)
(* append_leaves(leaves, merkle_trees, batch_size), including the call of  *)
(* build_merkle_tree_map it starts with.                                   *)
(*                                                                         *)
(* A leaf [b; 32] is modelled by the number b (the code only copies        *)
(* leaves).  A tree id is an array of KeyLen bytes, ordered as Rust orders *)
(* [u8; N]: lexicographically.  A BTreeMap is a function whose domain is   *)
(* its key set; its iterator yields the keys in ascending order.           *)
(* An Option is a sequence of length 0 (None) or 1 (Some).                 *)
(***************************************************************************)
EXTENDS Integers, Sequences, FiniteSets, TLC

(* ---------------------------- bounds ---------------------------------- *)
MaxLen == 3
MaxByte == 2
KeyLen == 2
MaxBatch == 3

(* usize arithmetic wraps at this modulus when overflow checks are off.   *)
(* TLC's integers are 32 bits wide, so the model's usize is 30 bits wide;  *)
(* every modelled quantity is far below it.                               *)
UsizeModulus == 1073741824

(* ---------------------------- values ---------------------------------- *)
\* [b; 32] as a tree id
Fill(b) == [k \in 1..KeyLen |-> b]

\* a tree id whose bytes differ: [0, .., 0, MaxByte]
Mixed == [k \in 1..KeyLen |-> IF k = KeyLen THEN MaxByte ELSE 0]

\* the tree ids the small inputs use
TreeId == {Fill(b) : b \in 0..MaxByte} \cup {Mixed}

\* the leaves the small inputs use: n leaves [b; 32] with b = 0, 1, .., p - 1,
\* 0, 1, ..; all different when p >= n, all equal when p = 1
LeafPattern(n, p) == [k \in 1..n |-> (k - 1) % p]

\* Ord for [u8; N]: lexicographic
ArrayLess(a, b) ==
    \E k \in 1..KeyLen : a[k] < b[k] /\ \A j \in 1..(k - 1) : a[j] = b[j]

SeqsUpTo(S, n) == UNION {[1..k -> S] : k \in 0..n}

Min(a, b) == IF a <= b THEN a ELSE b

(* ------------------------ the test's input ---------------------------- *)
RefLeaves == [k \in 1..25 |-> k - 1]
RefTrees ==
    [k \in 1..25 |->
        IF k <= 12 THEN Fill(0)
        ELSE IF k <= 15 THEN Fill(1)
        ELSE IF k <= 19 THEN Fill(2)
        ELSE Fill(3)]
RefBatchSize == 10

(* ---------------------------- state ----------------------------------- *)
VARIABLES
    leaves,                 \* argument
    merkle_trees,           \* argument
    batch_size,             \* argument
    overflow_checks,        \* build profile: TRUE = arithmetic overflow panics
    pc,                     \* position in append_leaves
    i,                      \* index of the for loop of build_merkle_tree_map
    merkle_tree_map,
    map_result,             \* what build_merkle_tree_map returned
    num_batches,
    leaves_in_batch,
    leaves_start,
    batches_of_changelogs,
    batch_of_changelogs,
    merkle_tree_map_iter,   \* keys the iterator has not yielded yet
    merkle_tree_map_pair,   \* Option: <<>> or <<key>>
    result                  \* what append_leaves returned

vars == <<leaves, merkle_trees, batch_size, overflow_checks, pc, i,
          merkle_tree_map, map_result, num_batches, leaves_in_batch,
          leaves_start, batches_of_changelogs, batch_of_changelogs,
          merkle_tree_map_iter, merkle_tree_map_pair, result>>

args == <<leaves, merkle_trees, batch_size, overflow_checks>>

(* ---------------------------- results --------------------------------- *)
Pending == [kind |-> "Pending", variant |-> "", fields |-> <<>>, batches |-> <<>>]
Ok(b) == [kind |-> "Ok", variant |-> "", fields |-> <<>>, batches |-> b]
Panic(msg) == [kind |-> "Panic", variant |-> msg, fields |-> <<>>, batches |-> <<>>]

\* the two lengths in the other order
LeavesTreesNotEqualSwapped(l, t) ==
    [kind |-> "Err", variant |-> "LeavesTreesNotEqual",
     fields |-> <<Len(t), Len(l)>>, batches |-> <<>>]

\* MyError::LeavesTreesNotEqual(leaves.len(), merkle_trees.len())
LeavesTreesNotEqual(l, t) ==
    [kind |-> "Err", variant |-> "LeavesTreesNotEqual",
     fields |-> <<Len(l), Len(t)>>, batches |-> <<>>]

(* ---------------------------- BTreeMap -------------------------------- *)
BTreeMapNew == <<>>

\* insert(k, vec![v]): what was in the group before is lost
EntryPushOverwrite(m, k, v) ==
    [x \in (DOMAIN m) \cup {k} |-> IF x = k THEN <<v>> ELSE m[x]]

\* entry(k).or_insert_with(Vec::new).push(v)
EntryPush(m, k, v) ==
    IF k \in DOMAIN m
    THEN [m EXCEPT ![k] = Append(@, v)]
    ELSE [x \in (DOMAIN m) \cup {k} |-> IF x = k THEN <<v>> ELSE m[x]]

\* the leaf is indexed by its position in the group, not in the input
GroupInsertLocalIndex(m, trees, lvs, idx) ==
    EntryPush(m, trees[idx],
              lvs[IF trees[idx] \in DOMAIN m THEN Len(m[trees[idx]]) + 1 ELSE 1])

\* lines 63-66 for the index idx of the for loop
GroupInsert(m, trees, lvs, idx) == EntryPush(m, trees[idx], lvs[idx])

MinKey(S) == CHOOSE k \in S : \A o \in S : o = k \/ ArrayLess(k, o)

RECURSIVE Ascending(_)
Ascending(S) ==
    IF S = {} THEN <<>>
    ELSE <<MinKey(S)>> \o Ascending(S \ {MinKey(S)})

MaxKey(S) == CHOOSE k \in S : \A o \in S : o = k \/ ArrayLess(o, k)

RECURSIVE Descending(_)
Descending(S) ==
    IF S = {} THEN <<>>
    ELSE <<MaxKey(S)>> \o Descending(S \ {MaxKey(S)})

\* iter().rev(): the keys in descending order
MapIterRev(m) == Descending(DOMAIN m)

\* BTreeMap::iter(): the keys in ascending order
MapIter(m) == Ascending(DOMAIN m)

\* Iterator::next(): the Option it returns, and the iterator afterwards
IterNext(it) == IF it = <<>> THEN <<>> ELSE <<Head(it)>>
IterRest(it) == IF it = <<>> THEN <<>> ELSE Tail(it)

(* ---------------------------- arithmetic ------------------------------ *)
\* num_integer::div_ceil for b > 0
DivCeil(a, b) == (a + b - 1) \div b

Underflows(a, b) == b > a
WrappingSub(a, b) == IF a >= b THEN a - b ELSE a - b + UsizeModulus

(* ------------------- the loop body's computations --------------------- *)
\* the rest of the tree, whatever room the batch has left (the commented-out
\* leaves_end of lines 108-114 takes leaves.len() in its first branch)
LeavesToProcessNoCap(len, start, in_batch, size) == WrappingSub(len, start)

\* at most one leaf per event
LeavesToProcessOne(len, start, in_batch, size) ==
    Min(1, Min(WrappingSub(len, start), WrappingSub(size, in_batch)))

\* line 92: cmp::min(leaves.len() - leaves_start, batch_size - leaves_in_batch)
LeavesToProcess(len, start, in_batch, size) ==
    Min(WrappingSub(len, start), WrappingSub(size, in_batch))

\* line 107
LeavesEnd(start, to_process) == (start + to_process) % UsizeModulus

\* the subtractions of lines 92 and 105; each panics when overflow checks are on
Line92Underflows(len, start, in_batch, size) ==
    Underflows(len, start) \/ Underflows(size, in_batch)
Line105Underflows(start, size) == Underflows(size, start)

\* line 119: &leaves[leaves_start..leaves_end] panics when out of range
SliceOutOfRange(start, end, len) == start > end \/ end > len
\* &leaves[0..leaves_end - leaves_start]: the cursor is ignored
SliceFromZero(s, start, end) == SubSeq(s, 1, end - start)

Slice(s, start, end) == SubSeq(s, start + 1, end)

\* `>` for `==`: the tree is never seen as done
TreeDoneGreater(start, len) == start > len

\* line 127
TreeDone(start, len) == start = len

\* `>` for `==`: a full batch is never sealed
BatchFullGreater(in_batch, size) == in_batch > size

\* line 134
BatchFull(in_batch, size) == in_batch = size

\* line 83 and line 140
ChangelogsNew == [changelogs |-> <<>>]

\* the batch under construction pushed on return without looking at it
ReturnValueTrailing(batches, batch) == Append(batches, batch)

\* line 146: Ok(batches_of_changelogs)
ReturnValue(batches, batch) == batches

(* ---------------------------- Init ------------------------------------ *)
SmallLeaves == {LeafPattern(n, p) : n \in 0..MaxLen, p \in 1..MaxLen}

\* every sequence of tree ids up to MaxLen, with leaves of any length up to
\* MaxLen (equal or not), and every batch size up to MaxBatch, 0 included
SmallInputs ==
    {<<l, t, b>> : l \in SmallLeaves,
                   t \in SeqsUpTo(TreeId, MaxLen),
                   b \in 0..MaxBatch}

\* the input of tests::test_append_leaves, also with the small batch sizes
RefInputs == {<<RefLeaves, RefTrees, b>> : b \in {RefBatchSize} \cup 0..MaxBatch}

Init ==
    /\ \E in \in SmallInputs \cup RefInputs :
          /\ leaves = in[1]
          /\ merkle_trees = in[2]
          /\ batch_size = in[3]
    /\ overflow_checks \in BOOLEAN
    /\ pc = "build"
    /\ i = 1
    /\ merkle_tree_map = BTreeMapNew
    /\ map_result = Pending
    /\ num_batches = 0
    /\ leaves_in_batch = 0
    /\ leaves_start = 0
    /\ batches_of_changelogs = <<>>
    /\ batch_of_changelogs = ChangelogsNew
    /\ merkle_tree_map_iter = <<>>
    /\ merkle_tree_map_pair = <<>>
    /\ result = Pending

(* ----------------------- build_merkle_tree_map ------------------------ *)
\* lines 54-59, and the `?` of line 77
BuildLenMismatch ==
    /\ pc = "build"
    /\ Len(leaves) # Len(merkle_trees)
    /\ map_result' = LeavesTreesNotEqual(leaves, merkle_trees)
    /\ result' = LeavesTreesNotEqual(leaves, merkle_trees)
    /\ pc' = "done"
    /\ UNCHANGED <<args, i, merkle_tree_map, num_batches, leaves_in_batch,
                   leaves_start, batches_of_changelogs, batch_of_changelogs,
                   merkle_tree_map_iter, merkle_tree_map_pair>>

\* line 60
BuildStart ==
    /\ pc = "build"
    /\ Len(leaves) = Len(merkle_trees)
    /\ merkle_tree_map' = BTreeMapNew
    /\ i' = 1
    /\ pc' = "group"
    /\ UNCHANGED <<args, map_result, num_batches, leaves_in_batch,
                   leaves_start, batches_of_changelogs, batch_of_changelogs,
                   merkle_tree_map_iter, merkle_tree_map_pair, result>>

\* lines 62-67, one iteration
GroupStep ==
    /\ pc = "group"
    /\ i <= Len(merkle_trees)
    /\ merkle_tree_map' = GroupInsert(merkle_tree_map, merkle_trees, leaves, i)
    /\ i' = i + 1
    /\ UNCHANGED <<args, pc, map_result, num_batches, leaves_in_batch,
                   leaves_start, batches_of_changelogs, batch_of_changelogs,
                   merkle_tree_map_iter, merkle_tree_map_pair, result>>

\* line 69
GroupDone ==
    /\ pc = "group"
    /\ i > Len(merkle_trees)
    /\ map_result' = Ok(<<>>)
    /\ pc' = "setup"
    /\ UNCHANGED <<args, i, merkle_tree_map, num_batches, leaves_in_batch,
                   leaves_start, batches_of_changelogs, batch_of_changelogs,
                   merkle_tree_map_iter, merkle_tree_map_pair, result>>

(* ---------------------------- append_leaves --------------------------- *)
\* line 79 with batch_size = 0: the division of div_ceil panics
DivCeilPanic ==
    /\ pc = "setup"
    /\ batch_size = 0
    /\ result' = Panic("attempt to divide by zero")
    /\ pc' = "done"
    /\ UNCHANGED <<args, i, merkle_tree_map, map_result, num_batches,
                   leaves_in_batch, leaves_start, batches_of_changelogs,
                   batch_of_changelogs, merkle_tree_map_iter,
                   merkle_tree_map_pair>>

\* lines 79-88
Setup ==
    /\ pc = "setup"
    /\ batch_size # 0
    /\ num_batches' = DivCeil(Len(leaves), batch_size)
    /\ leaves_in_batch' = 0
    /\ leaves_start' = 0
    /\ batches_of_changelogs' = <<>>
    /\ batch_of_changelogs' = ChangelogsNew
    /\ merkle_tree_map_pair' = IterNext(MapIter(merkle_tree_map))
    /\ merkle_tree_map_iter' = IterRest(MapIter(merkle_tree_map))
    /\ pc' = "loop"
    /\ UNCHANGED <<args, i, merkle_tree_map, map_result, result>>

\* the group the loop is draining: the `leaves` bound by line 90
TreeLeaves == merkle_tree_map[merkle_tree_map_pair[1]]

\* a panic inside the loop body: lines 92, 105 (overflow checks) or 119
BodyPanics ==
    LET len == Len(TreeLeaves)
        to_process == LeavesToProcess(len, leaves_start, leaves_in_batch, batch_size)
        end == LeavesEnd(leaves_start, to_process)
    IN  \/ overflow_checks
           /\ \/ Line92Underflows(len, leaves_start, leaves_in_batch, batch_size)
              \/ Line105Underflows(leaves_start, batch_size)
        \/ SliceOutOfRange(leaves_start, end, len)

BodyPanicMessage ==
    LET len == Len(TreeLeaves)
    IN  IF overflow_checks
           /\ \/ Line92Underflows(len, leaves_start, leaves_in_batch, batch_size)
              \/ Line105Underflows(leaves_start, batch_size)
        THEN "attempt to subtract with overflow"
        ELSE "slice index out of range"

LoopPanic ==
    /\ pc = "loop"
    /\ merkle_tree_map_pair # <<>>
    /\ BodyPanics
    /\ result' = Panic(BodyPanicMessage)
    /\ pc' = "done"
    /\ UNCHANGED <<args, i, merkle_tree_map, map_result, num_batches,
                   leaves_in_batch, leaves_start, batches_of_changelogs,
                   batch_of_changelogs, merkle_tree_map_iter,
                   merkle_tree_map_pair>>

\* lines 90-143, one iteration
LoopBody ==
    /\ pc = "loop"
    /\ merkle_tree_map_pair # <<>>
    /\ ~BodyPanics
    /\ LET merkle_tree_pubkey == merkle_tree_map_pair[1]
           len == Len(TreeLeaves)
           leaves_to_process ==
               LeavesToProcess(len, leaves_start, leaves_in_batch, batch_size)
           leaves_end == LeavesEnd(leaves_start, leaves_to_process)
           changelog_event ==
               [merkle_tree_pubkey |-> merkle_tree_pubkey,
                leaves |-> Slice(TreeLeaves, leaves_start, leaves_end)]
           pushed ==
               [changelogs |-> Append(batch_of_changelogs.changelogs, changelog_event)]
           in_batch == (leaves_in_batch + leaves_to_process) % UsizeModulus
           start == (leaves_start + leaves_to_process) % UsizeModulus
       IN  /\ IF TreeDone(start, len)
              THEN /\ leaves_start' = 0
                   /\ merkle_tree_map_pair' = IterNext(merkle_tree_map_iter)
                   /\ merkle_tree_map_iter' = IterRest(merkle_tree_map_iter)
              ELSE /\ leaves_start' = start
                   /\ UNCHANGED <<merkle_tree_map_pair, merkle_tree_map_iter>>
           /\ IF BatchFull(in_batch, batch_size)
              THEN /\ batches_of_changelogs' = Append(batches_of_changelogs, pushed)
                   /\ leaves_in_batch' = 0
                   /\ batch_of_changelogs' = ChangelogsNew
              ELSE /\ leaves_in_batch' = in_batch
                   /\ batch_of_changelogs' = pushed
                   /\ UNCHANGED batches_of_changelogs
    /\ UNCHANGED <<args, pc, i, merkle_tree_map, map_result, num_batches, result>>

\* line 90 with None, then line 146
Return ==
    /\ pc = "loop"
    /\ merkle_tree_map_pair = <<>>
    /\ result' = Ok(ReturnValue(batches_of_changelogs, batch_of_changelogs))
    /\ pc' = "done"
    /\ UNCHANGED <<args, i, merkle_tree_map, map_result, num_batches,
                   leaves_in_batch, leaves_start, batches_of_changelogs,
                   batch_of_changelogs, merkle_tree_map_iter,
                   merkle_tree_map_pair>>

Next ==
    \/ BuildLenMismatch
    \/ BuildStart
    \/ GroupStep
    \/ GroupDone
    \/ DivCeilPanic
    \/ Setup
    \/ LoopPanic
    \/ LoopBody
    \/ Return

Spec == Init /\ [][Next]_vars

\* the call is sequential code that is never suspended: whenever a step is
\* possible, a step is taken
FairSpec == Spec /\ WF_vars(Next)

(* ------------------- the call as a function of its input ------------- *)
RECURSIVE BuildFrom(_, _, _, _)
\* lines 62-67 from index idx on
BuildFrom(m, trees, lvs, idx) ==
    IF idx > Len(trees) THEN m
    ELSE BuildFrom(GroupInsert(m, trees, lvs, idx), trees, lvs, idx + 1)

\* lines 60-69, for sequences of equal length
BuildMerkleTreeMap(lvs, trees) == BuildFrom(BTreeMapNew, trees, lvs, 1)

RECURSIVE LoopFrom(_, _, _, _)
\* lines 90-146 from the loop state st on
LoopFrom(m, size, checks, st) ==
    IF st.pair = <<>> THEN Ok(ReturnValue(st.batches, st.batch))
    ELSE
        LET group == m[st.pair[1]]
            len == Len(group)
            to_process == LeavesToProcess(len, st.start, st.in_batch, size)
            end == LeavesEnd(st.start, to_process)
            pushed ==
                [changelogs |->
                    Append(st.batch.changelogs,
                           [merkle_tree_pubkey |-> st.pair[1],
                            leaves |-> Slice(group, st.start, end)])]
            in_batch == (st.in_batch + to_process) % UsizeModulus
            start == (st.start + to_process) % UsizeModulus
            done == TreeDone(start, len)
            full == BatchFull(in_batch, size)
        IN  IF checks /\ (\/ Line92Underflows(len, st.start, st.in_batch, size)
                          \/ Line105Underflows(st.start, size))
            THEN Panic("attempt to subtract with overflow")
            ELSE IF SliceOutOfRange(st.start, end, len)
            THEN Panic("slice index out of range")
            ELSE LoopFrom(m, size, checks,
                    [pair |-> IF done THEN IterNext(st.iter) ELSE st.pair,
                     iter |-> IF done THEN IterRest(st.iter) ELSE st.iter,
                     start |-> IF done THEN 0 ELSE start,
                     in_batch |-> IF full THEN 0 ELSE in_batch,
                     batches |-> IF full THEN Append(st.batches, pushed) ELSE st.batches,
                     batch |-> IF full THEN ChangelogsNew ELSE pushed])

\* append_leaves(lvs, trees, size) built with or without overflow checks
AppendLeaves(lvs, trees, size, checks) ==
    IF Len(lvs) # Len(trees) THEN LeavesTreesNotEqual(lvs, trees)
    ELSE IF size = 0 THEN Panic("attempt to divide by zero")
    ELSE LET m == BuildMerkleTreeMap(lvs, trees)
         IN  LoopFrom(m, size, checks,
                 [pair |-> IterNext(MapIter(m)),
                  iter |-> IterRest(MapIter(m)),
                  start |-> 0,
                  in_batch |-> 0,
                  batches |-> <<>>,
                  batch |-> ChangelogsNew])

(* ---------------------- reading inputs and outputs -------------------- *)
N == Len(leaves)
ValidInput == Len(leaves) = Len(merkle_trees) /\ batch_size >= 1
Returned == pc = "done" /\ result.kind = "Ok"
InputTrees == {merkle_trees[k] : k \in DOMAIN merkle_trees}

RECURSIVE EventsOf(_)
\* the events of a sequence of batches, in batch order then event order
EventsOf(batches) ==
    IF batches = <<>> THEN <<>>
    ELSE Head(batches).changelogs \o EventsOf(Tail(batches))

RECURSIVE LeavesOf(_)
\* the leaves of a sequence of events, in order
LeavesOf(events) ==
    IF events = <<>> THEN <<>>
    ELSE Head(events).leaves \o LeavesOf(Tail(events))

RECURSIVE EventsForTree(_, _)
EventsForTree(events, t) ==
    IF events = <<>> THEN <<>>
    ELSE (IF Head(events).merkle_tree_pubkey = t THEN <<Head(events)>> ELSE <<>>)
         \o EventsForTree(Tail(events), t)

RECURSIVE InputLeavesFor(_, _, _)
\* the leaves l[k] with tr[k] = t, in increasing k
InputLeavesFor(l, tr, t) ==
    IF l = <<>> \/ tr = <<>> THEN <<>>
    ELSE (IF Head(tr) = t THEN <<Head(l)>> ELSE <<>>)
         \o InputLeavesFor(Tail(l), Tail(tr), t)

Count(s, v) == Cardinality({k \in DOMAIN s : s[k] = v})
Values(s) == {s[k] : k \in DOMAIN s}
BatchLeafCount(batch) == Len(LeavesOf(batch.changelogs))
OutputLeaves == LeavesOf(EventsOf(result.batches))

(* ------------------------------ C1 ------------------------------------ *)
\* C1 (completeness): when append_leaves returns for an input with equal
\* lengths and batch_size >= 1, every leaf value occurs in the events of the
\* returned batches exactly as often as it occurs in the input.
C1_Completeness ==
    (ValidInput /\ Returned) =>
        \A v \in Values(leaves) \cup Values(OutputLeaves) :
            Count(OutputLeaves, v) = Count(leaves, v)

(* ------------------------------ C2 ------------------------------------ *)
\* C2 (final batch sealing): when the loop has exited and the batch under
\* construction holds at least one event, that batch is the last batch of the
\* returned sequence, and the returned sequence has ceil(N / batch_size)
\* batches.
C2_FinalBatchSealed ==
    (ValidInput /\ Returned) =>
        /\ batch_of_changelogs.changelogs # <<>> =>
              /\ result.batches # <<>>
              /\ result.batches[Len(result.batches)] = batch_of_changelogs
        /\ Len(result.batches) = DivCeil(N, batch_size)

(* ------------------------------ C3 ------------------------------------ *)
\* C3 (per-tree order): for every tree id t of the input, the leaves of the
\* returned events of t, concatenated in batch order then event order, are
\* the input leaves assigned to t in input order.
C3_PerTreeOrder ==
    (ValidInput /\ Returned) =>
        \A t \in InputTrees :
            LeavesOf(EventsForTree(EventsOf(result.batches), t))
                = InputLeavesFor(leaves, merkle_trees, t)

(* ------------------------------ C4 ------------------------------------ *)
\* C4 (capacity): no batch, sealed or under construction, ever holds more
\* than batch_size leaves; in the returned sequence every batch but the last
\* holds exactly batch_size leaves and the last holds between 1 and
\* batch_size.
C4_Capacity ==
    ValidInput =>
        /\ BatchLeafCount(batch_of_changelogs) <= batch_size
        /\ \A k \in DOMAIN batches_of_changelogs :
              BatchLeafCount(batches_of_changelogs[k]) <= batch_size
        /\ Returned =>
              \A k \in DOMAIN result.batches :
                  /\ BatchLeafCount(result.batches[k]) <= batch_size
                  /\ BatchLeafCount(result.batches[k]) >= 1
                  /\ k < Len(result.batches) =>
                        BatchLeafCount(result.batches[k]) = batch_size

\* a call that returned several batches, one of them holding several events
C4_Witness ==
    /\ ValidInput /\ Returned
    /\ Len(result.batches) >= 2
    /\ \E k \in DOMAIN result.batches : Len(result.batches[k].changelogs) >= 2

(* ------------------------------ C5 ------------------------------------ *)
\* C5 (batch_size = 0): a call with batch_size = 0 ends with a typed error
\* and no batches, never with a panic; the error is InvalidBatchSize (read
\* here in the claim's favour: unless the lengths differ, where line 77
\* returns LeavesTreesNotEqual before batch_size is looked at).
C5_ZeroBatchSizeRejected ==
    (batch_size = 0 /\ pc = "done") =>
        /\ result.kind = "Err"
        /\ result.batches = <<>>
        /\ Len(leaves) = Len(merkle_trees) => result.variant = "InvalidBatchSize"

(* ------------------------------ C6 ------------------------------------ *)
\* C6 (length mismatch): when leaves.len() # merkle_trees.len(), no map
\* entry, event or batch is ever constructed, and build_merkle_tree_map and
\* append_leaves both end with LeavesTreesNotEqual(leaves.len(),
\* merkle_trees.len()) and no batches.
C6_ErrorOnMismatch ==
    Len(leaves) # Len(merkle_trees) =>
        /\ DOMAIN merkle_tree_map = {}
        /\ batches_of_changelogs = <<>>
        /\ batch_of_changelogs.changelogs = <<>>
        /\ pc \in {"build", "done"}
        /\ pc = "done" =>
              /\ map_result.kind = "Err"
              /\ map_result.variant = "LeavesTreesNotEqual"
              /\ map_result.fields = <<Len(leaves), Len(merkle_trees)>>
              /\ result = map_result
              /\ result.batches = <<>>

\* a finished call on more leaves than trees
C6_Witness ==
    /\ pc = "done"
    /\ Len(leaves) > Len(merkle_trees)
    /\ Len(merkle_trees) >= 1
    /\ result.kind = "Err"

(* ------------------------------ C7 ------------------------------------ *)
\* C7 (no empty containers): no returned batch has zero events and no
\* returned event has zero leaves.
C7_NoEmptyContainers ==
    (ValidInput /\ Returned) =>
        \A k \in DOMAIN result.batches :
            /\ result.batches[k].changelogs # <<>>
            /\ \A e \in DOMAIN result.batches[k].changelogs :
                  result.batches[k].changelogs[e].leaves # <<>>

\* a returned call whose leaf count is a multiple of batch_size and whose
\* trees differ: the case where a trailing batch would be empty
C7_Witness ==
    /\ ValidInput /\ Returned
    /\ N >= 2
    /\ N % batch_size = 0
    /\ Cardinality(InputTrees) >= 2
    /\ result.batches # <<>>

(* ------------------------------ C8 ------------------------------------ *)
\* C8 (oversized batch): when batch_size > N >= 1 the call returns exactly
\* one batch, holding one event per tree id of the input, each with all of
\* that tree's leaves.
C8_OversizedBatch ==
    (ValidInput /\ batch_size > N /\ N >= 1 /\ pc = "done") =>
        /\ result.kind = "Ok"
        /\ Len(result.batches) = 1
        /\ Len(result.batches[1].changelogs) = Cardinality(InputTrees)
        /\ \A t \in InputTrees :
              \E e \in DOMAIN result.batches[1].changelogs :
                  /\ result.batches[1].changelogs[e].merkle_tree_pubkey = t
                  /\ result.batches[1].changelogs[e].leaves
                        = InputLeavesFor(leaves, merkle_trees, t)

(* ------------------------------ C9 ------------------------------------ *)
\* C9 (exact multiple): when N is a positive multiple of batch_size the call
\* returns exactly N / batch_size batches, each holding batch_size leaves.
C9_ExactMultiple ==
    (ValidInput /\ N >= 1 /\ N % batch_size = 0 /\ pc = "done") =>
        /\ result.kind = "Ok"
        /\ Len(result.batches) = N \div batch_size
        /\ \A k \in DOMAIN result.batches :
              BatchLeafCount(result.batches[k]) = batch_size

(* ------------------------------ C10 ----------------------------------- *)
RefEvent(b, from, to) ==
    [merkle_tree_pubkey |-> Fill(b), leaves |-> [k \in 1..(to - from + 1) |-> from + k - 1]]

\* the value tests::test_append_leaves expects
RefExpected ==
    << [changelogs |-> <<RefEvent(0, 0, 9)>>],
       [changelogs |-> <<RefEvent(0, 10, 11), RefEvent(1, 12, 14),
                         RefEvent(2, 15, 18), RefEvent(3, 19, 19)>>],
       [changelogs |-> <<RefEvent(3, 20, 24)>>] >>

\* C10 (reference scenario): the test's 25 leaves on 4 trees with
\* batch_size = 10 return the three batches the test expects.
C10_ReferenceScenario ==
    (/\ leaves = RefLeaves
     /\ merkle_trees = RefTrees
     /\ batch_size = RefBatchSize
     /\ pc = "done") =>
        /\ result.kind = "Ok"
        /\ result.batches = RefExpected

(* ------------------------------ C11 ----------------------------------- *)
\* C11 (grouper): once build_merkle_tree_map has returned Ok, the keys of the
\* map are exactly the tree ids of the input, the group of t is the sequence
\* of leaves[k] with merkle_trees[k] = t in increasing k, no group is empty
\* and the group lengths sum to leaves.len().
C11_GrouperCorrect ==
    map_result.kind = "Ok" =>
        /\ DOMAIN merkle_tree_map = InputTrees
        /\ \A t \in DOMAIN merkle_tree_map :
              /\ merkle_tree_map[t] = InputLeavesFor(leaves, merkle_trees, t)
              /\ merkle_tree_map[t] # <<>>
        /\ \A v \in Values(leaves) :
              Count(leaves, v) =
                  Cardinality({<<t, k>> \in
                      UNION {{t} \X DOMAIN merkle_tree_map[t] : t \in DOMAIN merkle_tree_map} :
                          merkle_tree_map[t][k] = v})
        /\ Cardinality(UNION {{t} \X DOMAIN merkle_tree_map[t] : t \in DOMAIN merkle_tree_map})
              = Len(leaves)

\* a map returned for an input where a tree comes back after another tree
C11_Witness ==
    /\ map_result.kind = "Ok"
    /\ \E a, b, c \in DOMAIN merkle_trees :
          /\ a < b /\ b < c
          /\ merkle_trees[a] = merkle_trees[c]
          /\ merkle_trees[a] # merkle_trees[b]
          /\ leaves[a] # leaves[c]

(* ------------------------------ C12 ----------------------------------- *)
\* C12 (ascending tree order): the tree ids of the returned events, read in
\* batch order then event order, never decrease, whatever the order of the
\* trees in the input; the events of one tree are consecutive.
C12_AscendingTreeOrder ==
    (ValidInput /\ Returned) =>
        LET ev == EventsOf(result.batches)
        IN  /\ \A a, b \in DOMAIN ev :
                  a < b => ~ArrayLess(ev[b].merkle_tree_pubkey, ev[a].merkle_tree_pubkey)
            /\ \A a, b, c \in DOMAIN ev :
                  (a < b /\ b < c /\ ev[a].merkle_tree_pubkey = ev[c].merkle_tree_pubkey)
                      => ev[b].merkle_tree_pubkey = ev[a].merkle_tree_pubkey

\* a returned call whose input has a greater tree before a smaller one, with
\* events of both trees returned
C12_Witness ==
    /\ ValidInput /\ Returned
    /\ \E a, b \in DOMAIN merkle_trees :
          /\ a < b
          /\ ArrayLess(merkle_trees[b], merkle_trees[a])
          /\ \E x, y \in DOMAIN EventsOf(result.batches) :
                /\ EventsOf(result.batches)[x].merkle_tree_pubkey = merkle_trees[a]
                /\ EventsOf(result.batches)[y].merkle_tree_pubkey = merkle_trees[b]

(* ------------------------------ C13 ----------------------------------- *)
\* C13 (empty input): a call with no leaves, no trees and batch_size >= 1
\* returns Ok with an empty sequence of batches.
C13_EmptyInput ==
    (leaves = <<>> /\ merkle_trees = <<>> /\ batch_size >= 1 /\ pc = "done") =>
        /\ result.kind = "Ok"
        /\ result.batches = <<>>

\* a finished call on the empty input
C13_Witness ==
    /\ leaves = <<>> /\ merkle_trees = <<>> /\ batch_size >= 1
    /\ pc = "done"
    /\ map_result.kind = "Ok"
    /\ DOMAIN merkle_tree_map = {}

(* ------------------------------ C14 ----------------------------------- *)
\* C14 (no underflow, no panic): for an input with equal lengths and
\* batch_size >= 1, at the start of every iteration none of
\* leaves.len() - leaves_start, batch_size - leaves_in_batch and
\* batch_size - leaves_start underflows, and the call never ends in a panic.
C14_NoUnderflow ==
    ValidInput =>
        /\ (pc = "loop" /\ merkle_tree_map_pair # <<>>) =>
              /\ ~Line92Underflows(Len(TreeLeaves), leaves_start,
                                   leaves_in_batch, batch_size)
              /\ ~Line105Underflows(leaves_start, batch_size)
        /\ pc = "done" => result.kind # "Panic"

(* ------------------------------ C16 ----------------------------------- *)
\* C16 (loop invariant): with batch_size >= 1, at the start of every
\* iteration leaves_start < the length of the current group and
\* leaves_in_batch < batch_size, so leaves_to_process >= 1; and no event with
\* zero leaves is in a sealed batch or in the batch under construction.
C16_LoopInvariant ==
    ValidInput =>
        /\ (pc = "loop" /\ merkle_tree_map_pair # <<>>) =>
              /\ leaves_start < Len(TreeLeaves)
              /\ leaves_in_batch < batch_size
              /\ LeavesToProcess(Len(TreeLeaves), leaves_start,
                                 leaves_in_batch, batch_size) >= 1
        /\ \A e \in DOMAIN batch_of_changelogs.changelogs :
              batch_of_changelogs.changelogs[e].leaves # <<>>
        /\ \A e \in DOMAIN EventsOf(batches_of_changelogs) :
              EventsOf(batches_of_changelogs)[e].leaves # <<>>

\* the start of an iteration in the middle of a tree, right after a batch
\* that holds events of two trees was sealed
C16_Witness ==
    /\ ValidInput
    /\ pc = "loop" /\ merkle_tree_map_pair # <<>>
    /\ leaves_start > 0
    /\ batches_of_changelogs # <<>>
    /\ Len(batches_of_changelogs[Len(batches_of_changelogs)].changelogs) >= 2

(* ------------------------------ C17 ----------------------------------- *)
\* the event pushed last: the last event of the batch under construction,
\* or of the last sealed batch when the batch under construction is empty
LastEvent(batches, batch) ==
    IF batch.changelogs # <<>>
    THEN batch.changelogs[Len(batch.changelogs)]
    ELSE batches[Len(batches)].changelogs[Len(batches[Len(batches)].changelogs)]

\* C17 (boundary split): every iteration emits one event for the current
\* tree holding exactly min(remaining leaves of the tree, batch_size -
\* leaves_in_batch) leaves, taken contiguously from the tree's cursor.  When
\* the tree has more remaining leaves than the batch has free slots, the
\* event fills the batch exactly, the batch is sealed, the current tree stays
\* and the cursor moves on by the number of leaves emitted (no reset).  The
\* first event of a batch that starts in the middle of a tree continues the
\* last event of the batch before it.
C17_BoundarySplit ==
    [][ (ValidInput /\ pc = "loop" /\ merkle_tree_map_pair # <<>> /\ pc' = "loop") =>
            LET remaining == Len(TreeLeaves) - leaves_start
                free == batch_size - leaves_in_batch
                n == IF remaining <= free THEN remaining ELSE free
                ev == LastEvent(batches_of_changelogs', batch_of_changelogs')
            IN  /\ ev.merkle_tree_pubkey = merkle_tree_map_pair[1]
                /\ Len(ev.leaves) = n
                /\ \A k \in 1..n :
                      ev.leaves[k] =
                          InputLeavesFor(leaves, merkle_trees,
                                         merkle_tree_map_pair[1])[leaves_start + k]
                /\ remaining > free =>
                      /\ batches_of_changelogs' =
                            Append(batches_of_changelogs,
                                   [changelogs |->
                                       Append(batch_of_changelogs.changelogs, ev)])
                      /\ BatchLeafCount(LET b == batches_of_changelogs'
                                        IN b[Len(b)]) = batch_size
                      /\ batch_of_changelogs' = ChangelogsNew
                      /\ merkle_tree_map_pair' = merkle_tree_map_pair
                      /\ leaves_start' = leaves_start + free
                /\ (batch_of_changelogs.changelogs = <<>> /\ leaves_start > 0) =>
                      LET prev == LastEvent(batches_of_changelogs, batch_of_changelogs)
                      IN  /\ prev.merkle_tree_pubkey = ev.merkle_tree_pubkey
                          /\ LeavesOf(EventsForTree(EventsOf(batches_of_changelogs),
                                                    ev.merkle_tree_pubkey))
                                \o ev.leaves
                                = SubSeq(TreeLeaves, 1, leaves_start + n)
      ]_vars

\* a batch under construction whose first event continues the tree of the
\* last event of the batch sealed before it, with different leaves
C17_Witness ==
    /\ ValidInput
    /\ batches_of_changelogs # <<>>
    /\ batch_of_changelogs.changelogs # <<>>
    /\ LET prev == LastEvent(batches_of_changelogs, ChangelogsNew)
           first == batch_of_changelogs.changelogs[1]
       IN  /\ prev.merkle_tree_pubkey = first.merkle_tree_pubkey
           /\ prev.leaves # first.leaves

(* ------------------------------ C18 ----------------------------------- *)
\* the leaves emitted so far, in sealed batches and in the one under construction
Emitted ==
    Len(LeavesOf(EventsOf(batches_of_changelogs))) + BatchLeafCount(batch_of_changelogs)

\* C18 (termination): for an input with equal lengths and batch_size >= 1
\* the call ends; every completed iteration emits at least one leaf that was
\* not emitted before and never more than the input has, the iterator only
\* moves forward, and the loop is left once the last group is consumed.
C18_Termination ==
    /\ ValidInput ~> (pc = "done")
    /\ [][ (ValidInput /\ pc = "loop" /\ merkle_tree_map_pair # <<>> /\ pc' = "loop") =>
              /\ Emitted' > Emitted
              /\ Emitted' <= N
              /\ \/ /\ merkle_tree_map_iter' = merkle_tree_map_iter
                    /\ merkle_tree_map_pair' = merkle_tree_map_pair
                 \/ /\ leaves_start' = 0
                    /\ merkle_tree_map_iter' = IterRest(merkle_tree_map_iter)
                    /\ merkle_tree_map_pair' = IterNext(merkle_tree_map_iter)
              /\ (merkle_tree_map_pair' = <<>>) =>
                    /\ merkle_tree_map_iter = <<>>
                    /\ leaves_start + (Emitted' - Emitted) = Len(TreeLeaves)
         ]_vars
    /\ [][ (ValidInput /\ pc = "loop" /\ merkle_tree_map_pair = <<>>) => pc' = "done" ]_vars

\* a call that ended after its loop ran more iterations than it has trees:
\* a tree was split
C18_Witness ==
    /\ ValidInput
    /\ pc = "done"
    /\ result.kind = "Ok"
    /\ Len(EventsOf(batches_of_changelogs)) > Cardinality(InputTrees)
    /\ Cardinality(InputTrees) >= 2

(* ------------------------------ C20 ----------------------------------- *)
\* the sealed batches followed by the batch under construction, when it has events
AllBatches ==
    batches_of_changelogs
        \o (IF batch_of_changelogs.changelogs = <<>> THEN <<>>
            ELSE <<batch_of_changelogs>>)

\* C20 (one event per tree per batch): at any point of a call with
\* batch_size >= 1, no batch, sealed or under construction, holds two events
\* of the same tree; when a tree has events in two batches, the earlier batch
\* is full and ends with the tree's event, the later batch starts with it,
\* and every batch between them is one event of that tree.
C20_OneEventPerTreePerBatch ==
    ValidInput =>
        /\ \A k \in DOMAIN AllBatches :
              \A a, b \in DOMAIN AllBatches[k].changelogs :
                  a # b => AllBatches[k].changelogs[a].merkle_tree_pubkey
                              # AllBatches[k].changelogs[b].merkle_tree_pubkey
        /\ \A k1, k2 \in DOMAIN AllBatches :
              k1 < k2 =>
                  \A a \in DOMAIN AllBatches[k1].changelogs :
                      \A b \in DOMAIN AllBatches[k2].changelogs :
                          (AllBatches[k1].changelogs[a].merkle_tree_pubkey
                              = AllBatches[k2].changelogs[b].merkle_tree_pubkey)
                          => /\ a = Len(AllBatches[k1].changelogs)
                             /\ b = 1
                             /\ BatchLeafCount(AllBatches[k1]) = batch_size
                             /\ \A k \in (k1 + 1)..(k2 - 1) :
                                   /\ Len(AllBatches[k].changelogs) = 1
                                   /\ AllBatches[k].changelogs[1].merkle_tree_pubkey
                                         = AllBatches[k1].changelogs[a].merkle_tree_pubkey

\* a tree with events in three batches, and a batch with events of two trees
C20_Witness ==
    /\ ValidInput
    /\ \E k \in DOMAIN AllBatches : Len(AllBatches[k].changelogs) >= 2
    /\ \E k \in DOMAIN AllBatches :
          /\ k + 2 \in DOMAIN AllBatches
          /\ AllBatches[k].changelogs[Len(AllBatches[k].changelogs)].merkle_tree_pubkey
                = AllBatches[k + 2].changelogs[1].merkle_tree_pubkey

(* ------------------------------ C19 ----------------------------------- *)
\* the rearrangements of positions 1..n that keep the positions of each tree
\* in their relative order
Interleavings(trees) ==
    {f \in [DOMAIN trees -> DOMAIN trees] :
        /\ \A a, b \in DOMAIN trees : a # b => f[a] # f[b]
        /\ \A a, b \in DOMAIN trees :
              (a < b /\ trees[f[a]] = trees[f[b]]) => f[a] < f[b]}

Rearranged(s, f) == [k \in DOMAIN s |-> s[f[k]]]

\* C19 (independence from interleaving): a finished call on up to MaxLen
\* leaves has the result of the call on any input that assigns the same
\* leaves to the same trees in the same per-tree order, interleaved
\* differently, with the same batch_size.
C19_InterleavingIndependent ==
    (pc = "done" /\ Len(leaves) = Len(merkle_trees) /\ N <= MaxLen) =>
        \A f \in Interleavings(merkle_trees) :
            AppendLeaves(Rearranged(leaves, f), Rearranged(merkle_trees, f),
                         batch_size, overflow_checks) = result

\* a call that returned batches for an input with another interleaving whose
\* leaves and trees are both in another order
C19_Witness ==
    /\ ValidInput /\ Returned
    /\ N <= MaxLen
    /\ result.batches # <<>>
    /\ \E f \in Interleavings(merkle_trees) :
          /\ Rearranged(merkle_trees, f) # merkle_trees
          /\ Rearranged(leaves, f) # leaves

====
